---------------------------- MODULE Spec2Model ----------------------------
(***************************************************************************)
(* Model of src/lib/utils.ts: the period bucketizers (getDailyData ..      *)
(* getYearlyData), handleDisable and calculateStreaks with its two         *)
(* predicates isConsecutive and isValidStreak.                             *)
(*                                                                         *)
(* A date string "yyyy-MM-dd" is the tuple <<y, m, d>> of its three        *)
(* fields.  A Date object of day precision (a local midnight) is the       *)
(* number of days since 1970-01-01, as Date.getTime() counts them.         *)
(* parseISO turns the first into the second and format turns it back.      *)
(***************************************************************************)
EXTENDS Integers, Sequences, FiniteSets, TLC

VARIABLES
    data,           \* the string[] argument (dates / completions)
    frequency,      \* the frequency argument
    today,          \* the value new Date() returned, 0 while the clock is unread
    zone,           \* where the local time zone lies from UTC, once a UTC field is read
    op,             \* the function that is called, "none" before the call
    pc,             \* "idle" | "walk" | "done"
    parsedDates,    \* calculateStreaks: the parsed, sorted dates
    longestStreak,  \* calculateStreaks: let longestStreak
    currentStreak,  \* calculateStreaks: let currentStreak
    streak,         \* calculateStreaks: let streak
    i,              \* calculateStreaks: the loop index
    result          \* the returned value, <<>> before the return

vars == <<data, frequency, today, zone, op, pc, parsedDates, longestStreak,
          currentStreak, streak, i, result>>

-----------------------------------------------------------------------------
(* Bounds of the model. *)

\* longest date list of the specification Spec
MaxData == 3

\* longest date list of the specification SpecStreaks
MaxDates == 4

-----------------------------------------------------------------------------
(* The calendar: the Date and date-fns operations the source calls. *)

Max(a, b) == IF a > b THEN a ELSE b

Abs(a) == IF a < 0 THEN -a ELSE a

\* Math.ceil(a / b) for a >= 0, b > 0
Ceil(a, b) == (a + b - 1) \div b

\* parseISO("yyyy-MM-dd"): the local midnight of the proleptic Gregorian day
parseISO(s) ==
    LET y   == IF s[2] <= 2 THEN s[1] - 1 ELSE s[1]
        era == y \div 400
        yoe == y - era * 400
        mp  == IF s[2] > 2 THEN s[2] - 3 ELSE s[2] + 9
        doy == (153 * mp + 2) \div 5 + s[3] - 1
        doe == yoe * 365 + yoe \div 4 - yoe \div 100 + doy
    IN  era * 146097 + doe - 719468

\* format(day, "yyyy-MM-dd"): the three calendar fields of a Date
format(n) ==
    LET z   == n + 719468
        era == z \div 146097
        doe == z - era * 146097
        yoe == (doe - doe \div 1460 + doe \div 36524 - doe \div 146096) \div 365
        doy == doe - (365 * yoe + yoe \div 4 - yoe \div 100)
        mp  == (5 * doy + 2) \div 153
        d   == doy - (153 * mp + 2) \div 5 + 1
        m   == IF mp < 10 THEN mp + 3 ELSE mp - 9
        y   == yoe + era * 400
    IN  <<IF m <= 2 THEN y + 1 ELSE y, m, d>>

\* getYear(date), Date.getFullYear()
getYear(n) == format(n)[1]

\* getMonth(date), Date.getMonth(): 0-based
getMonth(n) == format(n)[2] - 1

\* Date.getDate(): the day of the month
getDate(n) == format(n)[3]

\* Date.getDay(): 0 is Sunday; 1970-01-01 was a Thursday
getDay(n) == (n + 4) % 7

\* getQuarter(date): 1-based
getQuarter(n) == getMonth(n) \div 3 + 1

addDays(n, k) == n + k

isSameDay(a, b) == a = b

startOfYear(n) == parseISO(<<getYear(n), 1, 1>>)

\* endOfYear(date) is 23:59:59.999 of December 31; the day loop stops on that day
endOfYear(n) == parseISO(<<getYear(n), 12, 31>>)

\* startOfWeek(date, {weekStartsOn: 0}): the Sunday on or before the date
startOfWeek(n) == n - getDay(n)

\* getWeekYear(date, {weekStartsOn: 0}) with firstWeekContainsDate = 1
getWeekYear(n) ==
    LET year            == getYear(n)
        startOfNextYear == startOfWeek(parseISO(<<year + 1, 1, 1>>))
        startOfThisYear == startOfWeek(parseISO(<<year, 1, 1>>))
    IN  IF n >= startOfNextYear THEN year + 1
        ELSE IF n >= startOfThisYear THEN year
        ELSE year - 1

startOfWeekYear(n) == startOfWeek(parseISO(<<getWeekYear(n), 1, 1>>))

\* getWeek(date, {weekStartsOn: 0}): the local week of the year, from 1
getWeek(n) == (startOfWeek(n) - startOfWeekYear(n)) \div 7 + 1

isSameWeek(a, b) == startOfWeek(a) = startOfWeek(b)

isSameMonth(a, b) == getYear(a) = getYear(b) /\ getMonth(a) = getMonth(b)

isSameQuarter(a, b) == getYear(a) = getYear(b) /\ getQuarter(a) = getQuarter(b)

isSameYear(a, b) == getYear(a) = getYear(b)


-----------------------------------------------------------------------------
(* Helpers shared by the seven bucketizers. *)

\* the element of a one-element set; {e(x) : x \in {v}} computes v once,
\* as a const declaration does
The(S) == CHOOSE r \in S : TRUE

\* Object.values(map) of an object whose keys are integers: ascending key order
ObjectValues(map) ==
    The({[n \in 1..Cardinality(keys) |->
             map[CHOOSE key \in keys : Cardinality({j \in keys : j <= key}) = n]] :
         keys \in {DOMAIN map}})

\* data.map((date) => parseISO(date))
ParseAll(dates) == [k \in DOMAIN dates |-> parseISO(dates[k])]

\* parsedDates.reduce((a, b) => (a < b ? a : b))
RECURSIVE ReduceMin(_)
ReduceMin(seq) ==
    IF Len(seq) = 1 THEN seq[1]
    ELSE LET a == ReduceMin(SubSeq(seq, 1, Len(seq) - 1))
             b == seq[Len(seq)]
         IN  IF a < b THEN a ELSE b

\* parsedDates.reduce((a, b) => (a > b ? a : b))
RECURSIVE ReduceMax(_)
ReduceMax(seq) ==
    IF Len(seq) = 1 THEN seq[1]
    ELSE LET a == ReduceMax(SubSeq(seq, 1, Len(seq) - 1))
             b == seq[Len(seq)]
         IN  IF a > b THEN a ELSE b

\* DayLevel as it would be if every matching record counted
DayLevelPerRecord(dates, day) ==
    Cardinality({k \in DOMAIN dates : format(parseISO(dates[k])) = format(day)})

\* data.some((date) => format(parseISO(date), "yyyy-MM-dd") === strDay) ? 1 : 0
DayLevel(dates, day) ==
    IF \E k \in DOMAIN dates : format(parseISO(dates[k])) = format(day) THEN 1 ELSE 0

\* getBiWeeklyData: data.some((date) => isSameDay(parseISO(date), day)) ? 1 : 0
DayLevelSameDay(dates, day) ==
    IF \E k \in DOMAIN dates : isSameDay(parseISO(dates[k]), day) THEN 1 ELSE 0

\* BiWeekOf as it would be with Math.floor
BiWeekOfFloor(weekOfYear) == weekOfYear \div 2

\* Math.ceil(weekOfYear / 2)
BiWeekOf(weekOfYear) == Ceil(weekOfYear, 2)

\* getMonthlyData: const month = getMonth(day) + 1
MonthOf(day) == getMonth(day) + 1

\* month < 6 ? 1 : 2
SemesterOf(month) == IF month < 6 THEN 1 ELSE 2

\* the days of the loop  for (day = earliest; day <= latest; day = addDays(day, 1))
LoopDays(earliest, latest) == earliest..latest

\* the days of the loop whose level is not 0, each with its level: the only
\* days at which  map[key].level += level  changes a level
Levels(dates, earliest, latest) ==
    {<<day, DayLevel(dates, day)>> : day \in
        {d \in LoopDays(earliest, latest) : DayLevel(dates, d) # 0}}

LevelsSameDay(dates, earliest, latest) ==
    {<<day, DayLevelSameDay(dates, day)>> : day \in
        {d \in LoopDays(earliest, latest) : DayLevelSameDay(dates, d) # 0}}

\* the sum of the levels of a set of <<day, level>> pairs
RECURSIVE SumLevels(_)
SumLevels(levels) ==
    IF levels = {} THEN 0
    ELSE LET one == CHOOSE x \in levels : TRUE
         IN  one[2] + SumLevels(levels \ {one})

\* the days pushed on a list, in the order of the loop
DaysInOrder(days) ==
    The({[n \in 1..Cardinality(ds) |->
             CHOOSE day \in ds : Cardinality({e \in ds : e <= day}) = n] :
         ds \in {days}})

-----------------------------------------------------------------------------
(* The bucketizers.  Each loop over the days of the window is written as    *)
(* the map it leaves behind: a key for every period index a day of the     *)
(* window has, and as level the sum of the day levels of that key's days.  *)
(* levels and keys are computed once for the call.                         *)

getDailyData(dates) ==
    IF Len(dates) = 0 THEN <<>>
    ELSE
    LET parsed     == ParseAll(dates)
        earliest   == startOfYear(ReduceMin(parsed))
        latest     == endOfYear(ReduceMax(parsed))
        totalWeeks == getWeek(latest)
        Map(levels, keys) ==
            LET weeksMap ==
                    [week \in keys |->
                        [week  |-> week,
                         level |-> SumLevels({l \in levels : getWeek(l[1]) = week}),
                         days  |-> LET ds == DaysInOrder({l[1] : l \in
                                               {x \in levels : x[2] = 1 /\ getWeek(x[1]) = week}})
                                   IN  [n \in DOMAIN ds |-> format(ds[n])]]]
            IN  [week \in keys \cup 1..totalWeeks |->
                    IF week \in keys THEN weeksMap[week]
                    ELSE [week |-> week, level |-> 0, days |-> <<>>]]
    IN  The({ObjectValues(Map(levels, keys)) :
                levels \in {Levels(dates, earliest, latest)},
                keys \in {{getWeek(day) : day \in LoopDays(earliest, latest)}}})

getWeeklyData(dates) ==
    IF Len(dates) = 0 THEN <<>>
    ELSE
    LET parsed     == ParseAll(dates)
        earliest   == startOfYear(ReduceMin(parsed))
        latest     == endOfYear(ReduceMax(parsed))
        totalWeeks == getWeek(latest)
        Map(levels, keys) ==
            LET weeksMap ==
                    [week \in keys |->
                        [week  |-> week,
                         level |-> SumLevels({l \in levels : getWeek(l[1]) = week})]]
            IN  [week \in keys \cup 1..totalWeeks |->
                    IF week \in keys THEN weeksMap[week]
                    ELSE [week |-> week, level |-> 0]]
    IN  The({ObjectValues(Map(levels, keys)) :
                levels \in {Levels(dates, earliest, latest)},
                keys \in {{getWeek(day) : day \in LoopDays(earliest, latest)}}})

getBiWeeklyData(dates) ==
    IF Len(dates) = 0 THEN <<>>
    ELSE
    LET parsed       == ParseAll(dates)
        earliest     == startOfYear(ReduceMin(parsed))
        latest       == endOfYear(ReduceMax(parsed))
        totalBiWeeks == BiWeekOf(getWeek(latest))
        Map(levels, keys) ==
            LET \* weeks.push(weekOfYear) unless included: the weeks in the
                \* order of the first day that pushes them
                FirstDays(b) ==
                    {l[1] : l \in
                        {x \in levels :
                            /\ x[2] = 1
                            /\ BiWeekOf(getWeek(x[1])) = b
                            /\ \A e \in levels :
                                   (e[2] = 1 /\ getWeek(e[1]) = getWeek(x[1]))
                                       => x[1] <= e[1]}}
                biWeeksMap ==
                    [biWeek \in keys |->
                        [biWeek |-> biWeek,
                         level  |-> SumLevels({l \in levels :
                                                  BiWeekOf(getWeek(l[1])) = biWeek}),
                         weeks  |-> LET ds == DaysInOrder(FirstDays(biWeek))
                                    IN  [n \in DOMAIN ds |-> getWeek(ds[n])]]]
            IN  [biWeek \in keys \cup 1..totalBiWeeks |->
                    IF biWeek \in keys THEN biWeeksMap[biWeek]
                    ELSE [biWeek |-> biWeek, level |-> 0, weeks |-> <<>>]]
    IN  The({ObjectValues(Map(levels, keys)) :
                levels \in {LevelsSameDay(dates, earliest, latest)},
                keys \in {{BiWeekOf(getWeek(day)) : day \in LoopDays(earliest, latest)}}})

getMonthlyData(dates) ==
    IF Len(dates) = 0 THEN <<>>
    ELSE
    LET parsed   == ParseAll(dates)
        earliest == startOfYear(ReduceMin(parsed))
        latest   == endOfYear(ReduceMax(parsed))
        Map(levels, keys) ==
            LET monthsMap ==
                    [month \in keys |->
                        [month |-> month,
                         level |-> SumLevels({l \in levels : MonthOf(l[1]) = month})]]
            IN  [month \in keys \cup 1..12 |->
                    IF month \in keys THEN monthsMap[month]
                    ELSE [month |-> month, level |-> 0]]
    IN  The({ObjectValues(Map(levels, keys)) :
                levels \in {Levels(dates, earliest, latest)},
                keys \in {{MonthOf(day) : day \in LoopDays(earliest, latest)}}})

getQuarterlyData(dates) ==
    IF Len(dates) = 0 THEN <<>>
    ELSE
    LET parsed   == ParseAll(dates)
        earliest == startOfYear(ReduceMin(parsed))
        latest   == endOfYear(ReduceMax(parsed))
        Map(levels, keys) ==
            LET quartersMap ==
                    [quarter \in keys |->
                        [quarter |-> quarter,
                         level   |-> SumLevels({l \in levels :
                                                   getQuarter(l[1]) = quarter})]]
            IN  [quarter \in keys \cup 1..4 |->
                    IF quarter \in keys THEN quartersMap[quarter]
                    ELSE [quarter |-> quarter, level |-> 0]]
    IN  The({ObjectValues(Map(levels, keys)) :
                levels \in {Levels(dates, earliest, latest)},
                keys \in {{getQuarter(day) : day \in LoopDays(earliest, latest)}}})

getSemesterlyData(dates) ==
    IF Len(dates) = 0 THEN <<>>
    ELSE
    LET parsed   == ParseAll(dates)
        earliest == startOfYear(ReduceMin(parsed))
        latest   == endOfYear(ReduceMax(parsed))
        Map(levels, keys) ==
            LET semestersMap ==
                    [semester \in keys |->
                        [semester |-> semester,
                         level    |-> SumLevels({l \in levels :
                                        SemesterOf(getMonth(l[1])) = semester})]]
            IN  [semester \in keys \cup 1..2 |->
                    IF semester \in keys THEN semestersMap[semester]
                    ELSE [semester |-> semester, level |-> 0]]
    IN  The({ObjectValues(Map(levels, keys)) :
                levels \in {Levels(dates, earliest, latest)},
                keys \in {{SemesterOf(getMonth(day)) : day \in LoopDays(earliest, latest)}}})

\* YearlyDays as it would be if only the days of the list were visited
YearlyDaysOfList(parsed) == {parsed[k] : k \in DOMAIN parsed}

\* the window of getYearlyData: the raw earliest and latest dates
YearlyDays(parsed) == LoopDays(ReduceMin(parsed), ReduceMax(parsed))

\* getYearlyData: there is no post-pass
getYearlyData(dates) ==
    IF Len(dates) = 0 THEN <<>>
    ELSE
    LET parsed   == ParseAll(dates)
        earliest == ReduceMin(parsed)
        latest   == ReduceMax(parsed)
        Map(levels, keys) ==
            [year \in keys |->
                [year  |-> year,
                 level |-> SumLevels({l \in levels : getYear(l[1]) = year})]]
    IN  The({ObjectValues(Map(levels, keys)) :
                levels \in {Levels(dates, earliest, latest)},
                keys \in {{getYear(day) : day \in YearlyDays(parsed)}}})

-----------------------------------------------------------------------------
(* Frequencies. *)

\* the eight values of FrequencyConst
Frequencies == {"DAILY", "WEEKLY", "BIWEEKLY", "SEMIMONTHLY", "MONTHLY",
                "QUARTERLY", "SEMSTERLY", "YEARLY"}

\* a value that is none of the eight (the default: branch of each switch)
OtherFrequencies == {"HOURLY"}

AllFrequencies == Frequencies \cup OtherFrequencies

-----------------------------------------------------------------------------
(* UTC fields.  parseISO and new Date() give local instants, getUTCDate and *)
(* getUTCMonth read them in UTC: a local midnight east of Greenwich is the *)
(* previous UTC day, and the instant "now" is the previous, the same or    *)
(* the next UTC day by the zone and the hour.  midnight and now are the    *)
(* day shifts of a parsed date string and of new Date().                   *)

Zones == {[midnight |-> 0,  now |-> 0],     \* UTC, or west of it before the UTC day turns
          [midnight |-> 0,  now |-> 1],     \* west, in the local evening
          [midnight |-> -1, now |-> -1],    \* east, in the local early morning
          [midnight |-> -1, now |-> 0]}     \* east, later in the day

\* no UTC field was read
NoZone == [midnight |-> 0, now |-> 0, unread |-> TRUE]

\* Date.getUTCDate()
getUTCDate(n, shift) == getDate(n + shift)

\* Date.getUTCMonth()
getUTCMonth(n, shift) == getMonth(n + shift)

ReadsUTC(f) == f \in {"SEMIMONTHLY", "SEMSTERLY"}

-----------------------------------------------------------------------------
(* handleDisable(frequency, completions); now is new Date() and the clock  *)
(* isToday, isThisWeek, isThisMonth, isThisQuarter and isThisYear read.    *)

handleDisable(f, completions, now, z) ==
    CASE f = "DAILY" ->
           \E k \in DOMAIN completions : isSameDay(parseISO(completions[k]), now)
      [] f = "WEEKLY" ->
           \E k \in DOMAIN completions : isSameWeek(parseISO(completions[k]), now)
      [] f = "BIWEEKLY" ->
           LET currentWeek == getWeek(now)
           IN  \E k \in DOMAIN completions :
                   LET completionWeek == getWeek(parseISO(completions[k]))
                   IN  IF completionWeek = currentWeek THEN TRUE
                       ELSE IF completionWeek = currentWeek - 1
                            THEN Ceil(currentWeek, 2) = Ceil(completionWeek, 2)
                            ELSE FALSE
      [] f = "SEMIMONTHLY" ->
           LET dayOfMonth == getUTCDate(now, z.now)
           IN  \E k \in DOMAIN completions :
                   LET completionDayOfMonth ==
                           getUTCDate(parseISO(completions[k]), z.midnight)
                   IN  \/ (dayOfMonth <= 15 /\ completionDayOfMonth <= 15)
                       \/ (dayOfMonth > 15 /\ completionDayOfMonth > 15)
      [] f = "MONTHLY" ->
           \E k \in DOMAIN completions : isSameMonth(parseISO(completions[k]), now)
      [] f = "QUARTERLY" ->
           \E k \in DOMAIN completions : isSameQuarter(parseISO(completions[k]), now)
      [] f = "SEMSTERLY" ->
           LET month == getUTCMonth(now, z.now)
           IN  \E k \in DOMAIN completions :
                   LET completionMonth ==
                           getUTCMonth(parseISO(completions[k]), z.midnight)
                   IN  \/ (month < 6 /\ completionMonth < 6)
                       \/ (month >= 6 /\ completionMonth >= 6)
      [] f = "YEARLY" ->
           \E k \in DOMAIN completions : isSameYear(parseISO(completions[k]), now)
      [] OTHER -> FALSE

-----------------------------------------------------------------------------
(* calculateStreaks and its predicates. *)

\* .sort((a, b) => a.getTime() - b.getTime()): ascending, equal dates kept
RECURSIVE Insert(_, _)
Insert(sorted, x) ==
    IF Len(sorted) = 0 THEN <<x>>
    ELSE IF x - sorted[Len(sorted)] >= 0 THEN Append(sorted, x)
    ELSE Append(Insert(SubSeq(sorted, 1, Len(sorted) - 1), x), sorted[Len(sorted)])

RECURSIVE Sort(_)
Sort(seq) ==
    IF Len(seq) = 0 THEN <<>>
    ELSE Insert(Sort(SubSeq(seq, 1, Len(seq) - 1)), seq[Len(seq)])

\* the DAILY case of isConsecutive
ConsecutiveDays(prevDate, currDate) == isSameDay(addDays(prevDate, 1), currDate)

\* ConsecutiveWeeks as it would be if a second date of the same week kept the streak
ConsecutiveWeeksOrSame(prevDate, currDate) ==
    getWeek(currDate) - getWeek(prevDate) \in {0, 1}

\* the WEEKLY case of isConsecutive
ConsecutiveWeeks(prevDate, currDate) == getWeek(prevDate) + 1 = getWeek(currDate)

\* ConsecutiveMonths as it would be if January followed December
ConsecutiveMonthsWrapping(prevDate, currDate) ==
    (getMonth(prevDate) + 1) % 12 = getMonth(currDate)

\* the MONTHLY case of isConsecutive
ConsecutiveMonths(prevDate, currDate) == getMonth(prevDate) + 1 = getMonth(currDate)

\* the QUARTERLY case of isConsecutive
ConsecutiveQuarters(prevDate, currDate) == getQuarter(prevDate) + 1 = getQuarter(currDate)

isConsecutive(prevDate, currDate, f) ==
    CASE f = "DAILY" -> ConsecutiveDays(prevDate, currDate)
      [] f = "WEEKLY" -> ConsecutiveWeeks(prevDate, currDate)
      [] f = "BIWEEKLY" ->
           Ceil(getWeek(prevDate), 2) + 1 = Ceil(getWeek(currDate), 2)
      [] f = "SEMIMONTHLY" ->
           LET prevMonth == getMonth(prevDate)
               currMonth == getMonth(currDate)
           IN  \/ /\ prevMonth = currMonth
                  /\ Abs(getDate(prevDate) - getDate(currDate)) <= 15
               \/ /\ prevMonth # currMonth
                  /\ getDate(prevDate) > 15
                  /\ getDate(currDate) <= 15
      [] f = "MONTHLY" -> ConsecutiveMonths(prevDate, currDate)
      [] f = "QUARTERLY" -> ConsecutiveQuarters(prevDate, currDate)
      [] f = "SEMSTERLY" ->
           LET prevSemester == SemesterOf(getMonth(prevDate))
               currSemester == SemesterOf(getMonth(currDate))
           IN  /\ prevSemester = currSemester
               /\ Abs(getMonth(prevDate) - getMonth(currDate)) <= 6
      [] f = "YEARLY" -> getYear(prevDate) + 1 = getYear(currDate)
      [] OTHER -> FALSE

\* ValidDaily as it would be without the day of grace
ValidDailySameDayOnly(lastDate, now) == isSameDay(lastDate, now)

\* the DAILY case of isValidStreak
ValidDaily(lastDate, now) ==
    isSameDay(lastDate, now) \/ isSameDay(addDays(lastDate, 1), now)

\* isValidStreak as it would be if its default: fell through to the DAILY case
isValidStreakDefaultDaily(lastDate, now, f) ==
    isSameDay(lastDate, now) \/ isSameDay(addDays(lastDate, 1), now)

isValidStreak(lastDate, now, f) ==
    CASE f = "DAILY" -> ValidDaily(lastDate, now)
      [] f = "WEEKLY" ->
           \/ getWeek(lastDate) = getWeek(now)
           \/ getWeek(lastDate) + 1 = getWeek(now)
      [] f = "BIWEEKLY" ->
           \/ Ceil(getWeek(lastDate), 2) = Ceil(getWeek(now), 2)
           \/ Ceil(getWeek(lastDate), 2) + 1 = Ceil(getWeek(now), 2)
      [] f = "SEMIMONTHLY" ->
           LET lastMonth == getMonth(lastDate)
               thisMonth == getMonth(now)
           IN  \/ /\ lastMonth = thisMonth
                  /\ Abs(getDate(lastDate) - getDate(now)) <= 15
               \/ /\ lastMonth # thisMonth
                  /\ getDate(lastDate) > 15
                  /\ getDate(now) <= 15
      [] f = "MONTHLY" ->
           \/ getMonth(lastDate) = getMonth(now)
           \/ getMonth(lastDate) + 1 = getMonth(now)
      [] f = "QUARTERLY" ->
           \/ getQuarter(lastDate) = getQuarter(now)
           \/ getQuarter(lastDate) + 1 = getQuarter(now)
      [] f = "SEMSTERLY" ->
           LET lastSemester == SemesterOf(getMonth(lastDate))
               thisSemester == SemesterOf(getMonth(now))
           IN  /\ lastSemester = thisSemester
               /\ Abs(getMonth(lastDate) - getMonth(now)) <= 6
      [] f = "YEARLY" ->
           \/ getYear(lastDate) = getYear(now)
           \/ getYear(lastDate) + 1 = getYear(now)
      [] OTHER -> FALSE

-----------------------------------------------------------------------------
(* Inputs. *)

\* the date strings calculateStreaks is given: three consecutive days over a
\* week and a month boundary, the next week, the same months a year earlier
\* and later, and a December followed by the next January
StreakDates == {<<2023, 8, 15>>, <<2023, 12, 15>>, <<2024, 1, 15>>,
                <<2024, 9, 28>>, <<2024, 9, 29>>, <<2024, 9, 30>>,
                <<2024, 10, 6>>}

\* the date strings the bucketizers and handleDisable are given: three
\* calendar years, of 53 and of 52 weeks, one of them a leap year
Dates == {<<2022, 12, 31>>, <<2023, 12, 15>>, <<2024, 1, 15>>,
          <<2024, 9, 29>>, <<2024, 9, 30>>}

\* the days new Date() may return
Clock == {parseISO(<<2023, 12, 15>>), parseISO(<<2024, 1, 15>>),
          parseISO(<<2024, 9, 30>>), parseISO(<<2024, 10, 1>>),
          parseISO(<<2024, 10, 7>>), parseISO(<<2025, 1, 2>>)}

\* the lists of at most n strings of S
Lists(S, n) == UNION {[1..k -> S] : k \in 0..n}

-----------------------------------------------------------------------------
(* The state machine: a list is given, one function is called on it. *)

Start(inputs) ==
    /\ data \in inputs
    /\ frequency = "none"
    /\ today = 0
    /\ zone = NoZone
    /\ op = "none"
    /\ pc = "idle"
    /\ parsedDates = <<>>
    /\ longestStreak = 0
    /\ currentStreak = 0
    /\ streak = 0
    /\ i = 0
    /\ result = <<>>

Init == Start(Lists(Dates, MaxData))

InitStreaks == Start(Lists(StreakDates, MaxDates))

\* a call of a function that reads neither a frequency nor the clock
Return(name, value) ==
    /\ pc = "idle"
    /\ op' = name
    /\ result' = value
    /\ pc' = "done"
    /\ UNCHANGED <<data, frequency, today, zone, parsedDates, longestStreak,
                   currentStreak, streak, i>>

GetDailyData == Return("getDailyData", getDailyData(data))

GetWeeklyData == Return("getWeeklyData", getWeeklyData(data))

GetBiWeeklyData == Return("getBiWeeklyData", getBiWeeklyData(data))

GetMonthlyData == Return("getMonthlyData", getMonthlyData(data))

GetQuarterlyData == Return("getQuarterlyData", getQuarterlyData(data))

GetSemesterlyData == Return("getSemesterlyData", getSemesterlyData(data))

GetYearlyData == Return("getYearlyData", getYearlyData(data))

HandleDisable(f, now, z) ==
    /\ pc = "idle"
    /\ op' = "handleDisable"
    /\ frequency' = f
    /\ today' = now
    /\ zone' = z
    /\ result' = handleDisable(f, data, now, z)
    /\ pc' = "done"
    /\ UNCHANGED <<data, parsedDates, longestStreak, currentStreak, streak, i>>

\* EmptyStreak as it would be if longestStreak = 1 came before the empty check
EmptyStreakOfOne == [current |-> 0, record |-> 1]

\* if (!dates.length) return { current: 0, record: 0 }
EmptyStreak == [current |-> 0, record |-> 0]

\* calculateStreaks up to the for loop
CalculateStreaks(f) ==
    /\ pc = "idle"
    /\ op' = "calculateStreaks"
    /\ frequency' = f
    /\ IF Len(data) = 0
       THEN /\ result' = EmptyStreak
            /\ pc' = "done"
            /\ UNCHANGED <<parsedDates, longestStreak, currentStreak, streak, i>>
       ELSE /\ parsedDates' = Sort(ParseAll(data))
            /\ longestStreak' = 1
            /\ currentStreak' = 0
            /\ streak' = 1
            /\ i' = 1
            /\ pc' = "walk"
            /\ UNCHANGED result
    /\ UNCHANGED <<data, today, zone>>

\* StreakStep as it would be without longestStreak = Math.max(longestStreak, streak)
StreakStepWithoutMax ==
    /\ pc = "walk"
    /\ i < Len(parsedDates)
    /\ LET prevDate == parsedDates[i]
           currDate == parsedDates[i + 1]
       IN  IF isConsecutive(prevDate, currDate, frequency)
           THEN streak' = streak + 1
           ELSE streak' = 1
    /\ i' = i + 1
    /\ UNCHANGED <<data, frequency, today, zone, op, pc, parsedDates,
                   longestStreak, currentStreak, result>>

\* one turn of the for loop; i counts from 1 as the source's index does,
\* parsedDates[i - 1] and parsedDates[i] of the source are elements i, i + 1
StreakStep ==
    /\ pc = "walk"
    /\ i < Len(parsedDates)
    /\ LET prevDate == parsedDates[i]
           currDate == parsedDates[i + 1]
       IN  IF isConsecutive(prevDate, currDate, frequency)
           THEN /\ streak' = streak + 1
                /\ longestStreak' = Max(longestStreak, streak + 1)
           ELSE /\ streak' = 1
                /\ UNCHANGED longestStreak
    /\ i' = i + 1
    /\ UNCHANGED <<data, frequency, today, zone, op, pc, parsedDates,
                   currentStreak, result>>

\* after the loop: currentStreak and the return
StreakReturn(now) ==
    /\ pc = "walk"
    /\ ~(i < Len(parsedDates))
    /\ today' = now
    /\ currentStreak' =
           IF isValidStreak(parsedDates[Len(parsedDates)], now, frequency)
           THEN streak ELSE 0
    /\ result' = [current |-> currentStreak', record |-> longestStreak]
    /\ pc' = "done"
    /\ UNCHANGED <<data, frequency, zone, op, parsedDates, longestStreak, streak, i>>

Streaks ==
    \/ \E f \in AllFrequencies : CalculateStreaks(f)
    \/ StreakStep
    \/ \E now \in Clock : StreakReturn(now)

Disable ==
    \E f \in AllFrequencies, now \in Clock :
        \E z \in (IF ReadsUTC(f) THEN Zones ELSE {NoZone}) : HandleDisable(f, now, z)

Next ==
    \/ GetDailyData
    \/ GetWeeklyData
    \/ GetBiWeeklyData
    \/ GetMonthlyData
    \/ GetQuarterlyData
    \/ GetSemesterlyData
    \/ GetYearlyData
    \/ Disable
    \/ Streaks

Spec == Init /\ [][Next]_vars

NextStreaks == Streaks

SpecStreaks == InitStreaks /\ [][NextStreaks]_vars

-----------------------------------------------------------------------------
(* Vocabulary of the properties. *)

Bucketizers == {"getDailyData", "getWeeklyData", "getBiWeeklyData", "getMonthlyData",
                "getQuarterlyData", "getSemesterlyData", "getYearlyData"}

\* a bucketizer has returned for a non-empty list
Bucketed(name) == pc = "done" /\ op = name /\ Len(data) > 0

\* the period index of a bucket
IndexOf(b) ==
    CASE "week" \in DOMAIN b -> b.week
      [] "biWeek" \in DOMAIN b -> b.biWeek
      [] "month" \in DOMAIN b -> b.month
      [] "quarter" \in DOMAIN b -> b.quarter
      [] "semester" \in DOMAIN b -> b.semester
      [] "year" \in DOMAIN b -> b.year

RECURSIVE TotalLevel(_)
TotalLevel(buckets) ==
    IF Len(buckets) = 0 THEN 0
    ELSE buckets[Len(buckets)].level + TotalLevel(SubSeq(buckets, 1, Len(buckets) - 1))

\* the distinct calendar days of the list, the years they lie in
DistinctDays(dates) == {dates[k] : k \in DOMAIN dates}

YearsOf(dates) == {dates[k][1] : k \in DOMAIN dates}

\* the days from January 1 of the first year to December 31 of the last
WindowOf(dates) ==
    LET first == CHOOSE y \in YearsOf(dates) : \A z \in YearsOf(dates) : y <= z
        last  == CHOOSE y \in YearsOf(dates) : \A z \in YearsOf(dates) : y >= z
    IN  parseISO(<<first, 1, 1>>)..parseISO(<<last, 12, 31>>)

Greatest(S) == CHOOSE x \in S : \A y \in S : y <= x

-----------------------------------------------------------------------------
(* C1: for a non-empty list every bucketizer returns buckets whose levels  *)
(* add up to the number of distinct calendar days of the list; a day that  *)
(* occurs several times counts once, also over more than one year.         *)

C1_LevelsSumToDistinctDays ==
    \A name \in Bucketizers :
        Bucketed(name) => TotalLevel(result) = Cardinality(DistinctDays(data))

\* getMonthlyData has returned for a list with a repeated day and two years
C1_Witness ==
    /\ Bucketed("getMonthlyData")
    /\ Cardinality(DistinctDays(data)) < Len(data)
    /\ Cardinality(YearsOf(data)) > 1
    /\ TotalLevel(result) = 2

\* the N of a bucketizer: the last period index of its window
LastIndex(name, dates) ==
    CASE name \in {"getDailyData", "getWeeklyData"} ->
           Greatest({getWeek(day) : day \in WindowOf(dates)})
      [] name = "getBiWeeklyData" ->
           Greatest({(getWeek(day) + 1) \div 2 : day \in WindowOf(dates)})
      [] name = "getMonthlyData" -> 12
      [] name = "getQuarterlyData" -> 4
      [] name = "getSemesterlyData" -> 2

-----------------------------------------------------------------------------
(* C2: for a non-empty list every bucketizer but the yearly one returns    *)
(* the period indices 1, 2, .., N in this order, none missing or repeated; *)
(* N is 12 for months, 4 for quarters, 2 for semesters and the highest     *)
(* week or bi-week number of a day of the window for weeks and bi-weeks,   *)
(* whatever the week number of the last day of the year is.                *)

C2_IndicesOneToN ==
    \A name \in Bucketizers \ {"getYearlyData"} :
        Bucketed(name) =>
            /\ Len(result) = LastIndex(name, data)
            /\ \A n \in 1..Len(result) : IndexOf(result[n]) = n

\* getWeeklyData has returned 52 weeks and getBiWeeklyData 26 bi-weeks for a
\* year whose last day is in week 1, so that totalWeeks is 1
C2_Witness ==
    /\ \/ Bucketed("getWeeklyData") /\ Len(result) = 52
       \/ Bucketed("getBiWeeklyData") /\ Len(result) = 26
    /\ YearsOf(data) = {2024}
    /\ getWeek(parseISO(<<2024, 12, 31>>)) = 1

-----------------------------------------------------------------------------
(* Vocabulary of the streak properties. *)

StreakDone == pc = "done" /\ op = "calculateStreaks"

\* the loop is at a pair of neighbours of the sorted list
AtPair == op = "calculateStreaks" /\ pc = "walk" /\ i < Len(parsedDates)

\* the day numbers of the list
DayNumbers(dates) == {parseISO(dates[k]) : k \in DOMAIN dates}

Least(S) == CHOOSE x \in S : \A y \in S : x <= y

\* the list is n distinct days d, d + 1, .., d + n - 1 in some order
IsDayRun(dates) ==
    /\ Len(dates) > 0
    /\ Cardinality(DayNumbers(dates)) = Len(dates)
    /\ \A x \in DayNumbers(dates) :
           x = Least(DayNumbers(dates)) \/ x - 1 \in DayNumbers(dates)

-----------------------------------------------------------------------------
(* C3: under DAILY, for n distinct consecutive days in any order, record   *)
(* is n, and current is n when today is the last day or the day after it   *)
(* and 0 for every other today.                                            *)

C3_DailyRun ==
    (StreakDone /\ frequency = "DAILY" /\ IsDayRun(data)) =>
        LET last == Greatest(DayNumbers(data))
        IN  /\ result.record = Len(data)
            /\ result.current = IF today \in {last, last + 1} THEN Len(data) ELSE 0

\* three consecutive days given out of order, today the day after the last
C3_Witness ==
    /\ StreakDone
    /\ frequency = "DAILY"
    /\ IsDayRun(data)
    /\ Len(data) = 3
    /\ parseISO(data[1]) = Greatest(DayNumbers(data))
    /\ today = Greatest(DayNumbers(data)) + 1
    /\ result = [current |-> 3, record |-> 3]

\* the distinct day numbers of the list, ascending
DistinctInOrder(dates) ==
    [n \in 1..Cardinality(DayNumbers(dates)) |->
        CHOOSE x \in DayNumbers(dates) :
            Cardinality({y \in DayNumbers(dates) : y <= x}) = n]

IsRun(seq, f) == \A j \in 1..(Len(seq) - 1) : isConsecutive(seq[j], seq[j + 1], f)

-----------------------------------------------------------------------------
(* C4: for every frequency, a date that occurs twice does not break the    *)
(* chain: when the distinct dates of the list are a run of consecutive     *)
(* periods, record is the length of that run, as it is without the         *)
(* repetition.                                                             *)

C4_DuplicateKeepsRecord ==
    (/\ StreakDone
     /\ frequency \in Frequencies
     /\ Cardinality(DayNumbers(data)) < Len(data)
     /\ IsRun(DistinctInOrder(data), frequency)) =>
        result.record = Cardinality(DayNumbers(data))

\* the date string s lies in the period of f that contains the day now
InCurrentPeriod(f, s, now) ==
    LET t == format(now)
    IN  CASE f = "DAILY" -> s = t
          [] f = "WEEKLY" -> startOfWeek(parseISO(s)) = startOfWeek(now)
          [] f = "BIWEEKLY" ->
               /\ getWeekYear(parseISO(s)) = getWeekYear(now)
               /\ (getWeek(parseISO(s)) + 1) \div 2 = (getWeek(now) + 1) \div 2
          [] f = "SEMIMONTHLY" ->
               s[1] = t[1] /\ s[2] = t[2] /\ (s[3] <= 15 <=> t[3] <= 15)
          [] f = "MONTHLY" -> s[1] = t[1] /\ s[2] = t[2]
          [] f = "QUARTERLY" -> s[1] = t[1] /\ (s[2] - 1) \div 3 = (t[2] - 1) \div 3
          [] f = "SEMSTERLY" -> s[1] = t[1] /\ (s[2] <= 6 <=> t[2] <= 6)
          [] f = "YEARLY" -> s[1] = t[1]

-----------------------------------------------------------------------------
(* C5: handleDisable returns true exactly when a completion lies in the    *)
(* period of the frequency that contains today: the same day, week,        *)
(* bi-week, half-month, month, quarter, half-year or year of the same      *)
(* year.  Stated for a zone in which the UTC day is the local day.         *)

C5_DisabledIffCurrentPeriod ==
    (/\ pc = "done"
     /\ op = "handleDisable"
     /\ frequency \in Frequencies
     /\ zone.midnight = 0
     /\ zone.now = 0) =>
        (result <=> \E k \in DOMAIN data : InCurrentPeriod(frequency, data[k], today))

-----------------------------------------------------------------------------
(* C6: under MONTHLY (QUARTERLY) a pair of neighbours of the sorted list   *)
(* extends the running streak exactly when the month (quarter) number of   *)
(* the later date is one more than that of the earlier, whatever the       *)
(* years; every other pair resets it to 1.  So December followed by the    *)
(* next January resets it: record is 1 for [2023-12-15, 2024-01-15].       *)

\* the 1-based month or quarter number of a day
PeriodNumber(f, n) ==
    IF f = "MONTHLY" THEN format(n)[2] ELSE (format(n)[2] + 2) \div 3

C6_Step ==
    (AtPair /\ frequency \in {"MONTHLY", "QUARTERLY"}) =>
        IF PeriodNumber(frequency, parsedDates[i + 1])
               = PeriodNumber(frequency, parsedDates[i]) + 1
        THEN streak' = streak + 1
        ELSE streak' = 1

C6_Example ==
    (/\ op = "calculateStreaks"
     /\ pc = "walk"
     /\ pc' = "done"
     /\ frequency \in {"MONTHLY", "QUARTERLY"}
     /\ data = <<<<2023, 12, 15>>, <<2024, 1, 15>>>>) =>
        result'.record = 1

\* C6: every step of calculateStreaks under MONTHLY and QUARTERLY extends or
\* resets the running streak by the month or quarter numbers alone
C6_MonthNumbersOnly == [][C6_Step /\ C6_Example]_vars

\* December 15 and the next January 15 under MONTHLY: record 1
C6_Witness ==
    /\ StreakDone
    /\ frequency = "MONTHLY"
    /\ data = <<<<2023, 12, 15>>, <<2024, 1, 15>>>>
    /\ streak = 1
    /\ result.record = 1

-----------------------------------------------------------------------------
(* C7, as claimed: every bucket getYearlyData returns is for a calendar    *)
(* year in which a date of the list falls.                                 *)

C7_OnlyYearsPresent ==
    Bucketed("getYearlyData") =>
        \A n \in 1..Len(result) : result[n].year \in YearsOf(data)

(* C7, amended: getYearlyData returns one bucket for every calendar year   *)
(* from the year of the earliest date to the year of the latest, in        *)
(* ascending order; the first and the last are years of the list, and a    *)
(* year between them in which no date of the list falls has level 0.       *)

C7_EveryYearOfTheSpan ==
    Bucketed("getYearlyData") =>
        LET first == Least(YearsOf(data))
            last  == Greatest(YearsOf(data))
        IN  /\ Len(result) = last - first + 1
            /\ \A n \in 1..Len(result) :
                   /\ result[n].year = first + n - 1
                   /\ result[n].level =
                          Cardinality({d \in DistinctDays(data) : d[1] = first + n - 1})

\* dates of 2022 and of 2024 only: the bucket of 2023 is there, with level 0
C7_Witness ==
    /\ Bucketed("getYearlyData")
    /\ YearsOf(data) = {2022, 2024}
    /\ Len(result) = 3
    /\ result[2] = [year |-> 2023, level |-> 0]

-----------------------------------------------------------------------------
(* C8: for a frequency that is none of the eight, handleDisable returns    *)
(* false, isConsecutive and isValidStreak are false for all dates, and     *)
(* calculateStreaks returns current 0 and record 1 for a non-empty list.   *)

C8_UnknownFrequency ==
    frequency \in OtherFrequencies =>
        /\ (pc = "done" /\ op = "handleDisable") => result = FALSE
        /\ (op = "calculateStreaks" /\ Len(data) > 0) =>
               /\ streak = 1
               /\ longestStreak = 1
               /\ currentStreak = 0
               /\ \A j, k \in DOMAIN parsedDates :
                      ~isConsecutive(parsedDates[j], parsedDates[k], frequency)
               /\ \A j \in DOMAIN parsedDates : \A now \in Clock :
                      ~isValidStreak(parsedDates[j], now, frequency)
        /\ (StreakDone /\ Len(data) > 0) => result = [current |-> 0, record |-> 1]

\* calculateStreaks has returned for several dates, the last of them today:
\* each of the eight frequencies would find the streak still valid
C8_Witness ==
    /\ StreakDone
    /\ frequency \in OtherFrequencies
    /\ Len(data) > 1
    /\ today = parsedDates[Len(parsedDates)]
    /\ result = [current |-> 0, record |-> 1]

-----------------------------------------------------------------------------
(* C9: under WEEKLY a pair of neighbours of the sorted list that lies in   *)
(* one week (the same Sunday-start week number) resets the running streak  *)
(* to 1; dates in the weeks w, w + 1, w + 1, w + 2 give record 2.          *)

C9_Step ==
    (/\ AtPair
     /\ frequency = "WEEKLY"
     /\ getWeek(parsedDates[i]) = getWeek(parsedDates[i + 1])) =>
        streak' = 1

C9_Example ==
    (/\ op = "calculateStreaks"
     /\ pc = "walk"
     /\ pc' = "done"
     /\ frequency = "WEEKLY"
     /\ Len(parsedDates) = 4
     /\ getWeek(parsedDates[2]) = getWeek(parsedDates[1]) + 1
     /\ getWeek(parsedDates[3]) = getWeek(parsedDates[2])
     /\ getWeek(parsedDates[4]) = getWeek(parsedDates[3]) + 1) =>
        result'.record = 2

\* C9: every step of calculateStreaks under WEEKLY resets the running streak
\* at a pair of one week
C9_SameWeekResets == [][C9_Step /\ C9_Example]_vars

\* Saturday, the Sunday and the Monday after it, the Sunday after those
C9_Witness ==
    /\ StreakDone
    /\ frequency = "WEEKLY"
    /\ parsedDates = <<parseISO(<<2024, 9, 28>>), parseISO(<<2024, 9, 29>>),
                       parseISO(<<2024, 9, 30>>), parseISO(<<2024, 10, 6>>)>>
    /\ getWeek(parsedDates[2]) = getWeek(parsedDates[3])
    /\ result.record = 2

-----------------------------------------------------------------------------
(* C10: for the empty list every bucketizer returns the empty sequence and *)
(* calculateStreaks returns current 0 and record 0, for every frequency,   *)
(* one that is none of the eight too, and without reading the clock.       *)

C10_EmptyInput ==
    (pc = "done" /\ Len(data) = 0) =>
        /\ op \in Bucketizers => result = <<>>
        /\ op = "calculateStreaks" => result = [current |-> 0, record |-> 0]

\* calculateStreaks has returned for the empty list and an unknown frequency
C10_Witness ==
    /\ StreakDone
    /\ Len(data) = 0
    /\ frequency \in OtherFrequencies
    /\ result = [current |-> 0, record |-> 0]

-----------------------------------------------------------------------------
\* the last position of the sorted list whose pair of neighbours is not
\* consecutive, 0 when every pair is
LastBreak(seq, f) ==
    Greatest({0} \cup {j \in 1..(Len(seq) - 1) : ~isConsecutive(seq[j], seq[j + 1], f)})

\* the length of the run of consecutive periods that ends at the latest date
TailRun(seq, f) == Len(seq) - LastBreak(seq, f)

(* C11: for every non-empty list, every frequency and every today, the     *)
(* result of calculateStreaks has 1 <= record <= number of dates and       *)
(* 0 <= current <= record, current is 0 or the length of the running       *)
(* streak that ends at the latest date, and at every step of the walk the  *)
(* running streak is at least 1 and at most the record so far.             *)

C11_StreakBounds ==
    /\ (op = "calculateStreaks" /\ pc = "walk") =>
           /\ 1 <= streak
           /\ streak <= longestStreak
           /\ longestStreak <= Len(data)
    /\ (StreakDone /\ Len(data) > 0) =>
           /\ streak <= longestStreak
           /\ 1 <= result.record
           /\ result.record <= Len(data)
           /\ 0 <= result.current
           /\ result.current <= result.record
           /\ result.current \in {0, TailRun(Sort(ParseAll(data)), frequency)}

\* a run of two, a break and a still valid run of one: current 1 below
\* record 2 below the three dates of the list
C11_Witness ==
    /\ StreakDone
    /\ Len(data) = 3
    /\ LastBreak(Sort(ParseAll(data)), frequency) = 2
    /\ result = [current |-> 1, record |-> 2]

=============================================================================
